---------------------------- MODULE Spec2Model ----------------------------
(***************************************************************************)
(* A model of HTMLGENERATOR.PY, the report generator of TritonRepAnalizer. *)
(*                                                                         *)
(* Text is modelled at the character level: a Python str is a sequence of  *)
(* one-character strings, so that strip, split, int(), float(), the        *)
(* f-string formats and the regular expressions are computed the way the   *)
(* code computes them.  Python's None is the value None below.             *)
(***************************************************************************)
EXTENDS Integers, Sequences, FiniteSets, TLC

VARIABLES
    \* ---- timestamp normalizer / validator harness ----
    tsIn,        \* the argument handed to process_timestamp / validate_timestamp
    durIn,       \* the video_duration handed to validate_timestamp
    tsOut,       \* process_timestamp(tsIn)
    tsOut2,      \* process_timestamp(tsOut)
    valid,       \* validate_timestamp(tsIn, durIn)
    trIn,        \* the transcript handed to create_timestamp_map
    mapOut,      \* create_timestamp_map(trIn)
    tpc,         \* position of the harness: "in", "once", "twice", "validated",
                 \* "indexed", "idle"
    \* ---- the report generator, main() ----
    world,          \* what the video platform holds: video id -> details
    files,          \* the .json files of SUMMARY_PATH, in os.listdir order
    summaries,      \* main's list of loaded documents
    idx,            \* merge_and_format_summaries: index of the next document
    merged,         \* merge_and_format_summaries: the dict, in insertion order
    fate,           \* per processed document: "no_id", "no_details" or "merged"
    videos,         \* generate_html_report: the sorted list handed to the template
    reportFile,     \* REPORTS_PATH/latest_report.html (NoFile: no such file)
    remote,         \* HTML_FILE_PATH in the GitHub repository (NoFile: not updated)
    publishFailed,  \* update_github_html logged "Failed to update GitHub repository"
    outcome,        \* how main ended: "running", "no_summaries", "success", "raised"
    pc              \* main's position

tvars == <<tsIn, durIn, tsOut, tsOut2, valid, trIn, mapOut, tpc>>
pvars == <<world, files, summaries, idx, merged, fate, videos, reportFile, remote,
           publishFailed, outcome, pc>>
vars == <<tvars, pvars>>

-----------------------------------------------------------------------------
(* Strings *)

None == <<"<None>">>

Digits == {"0", "1", "2", "3", "4", "5", "6", "7", "8", "9"}

\* str.isspace() over the characters the model uses
Whitespace == {" ", "\n", "\t"}

DigitVal(c) ==
    CASE c = "0" -> 0 [] c = "1" -> 1 [] c = "2" -> 2 [] c = "3" -> 3
      [] c = "4" -> 4 [] c = "5" -> 5 [] c = "6" -> 6 [] c = "7" -> 7
      [] c = "8" -> 8 [] c = "9" -> 9

DigitChar(d) ==
    CASE d = 0 -> "0" [] d = 1 -> "1" [] d = 2 -> "2" [] d = 3 -> "3"
      [] d = 4 -> "4" [] d = 5 -> "5" [] d = 6 -> "6" [] d = 7 -> "7"
      [] d = 8 -> "8" [] d = 9 -> "9"

Chars(s) == {s[k] : k \in 1..Len(s)}

\* s[a..b] (1-based, inclusive); empty when a > b
Slice(s, a, b) == IF a > b THEN <<>> ELSE SubSeq(s, a, b)

Min(S) == CHOOSE x \in S : \A y \in S : x <= y
Max(S) == CHOOSE x \in S : \A y \in S : x >= y

\* the first position >= p of s whose character is not in cls (Len(s)+1 if none)
SkipClass(s, p, cls) ==
    Min({q \in p..Len(s) : s[q] \notin cls} \cup {IF p > Len(s) THEN p ELSE Len(s) + 1})

\* the last position <= p of s whose character is not in cls (0 if none)
SkipClassBack(s, p, cls) ==
    Max({q \in 1..p : s[q] \notin cls} \cup {IF p < 1 THEN p ELSE 0})

\* str.strip(chars)
StripChars(s, cls) ==
    LET a == SkipClass(s, 1, cls)
        b == SkipClassBack(s, Len(s), cls)
    IN  Slice(s, a, b)

\* str.strip()
Strip(s) == StripChars(s, Whitespace)

\* str.split(sep) for a one-character separator: the pieces between the
\* separators, one more than there are separators
\* the i-th smallest element of a set of positions
Nth(seps, i) == CHOOSE p \in seps : Cardinality({q \in seps : q <= p}) = i

SplitAt(s, seps, n) ==
    [i \in 1..(n + 1) |->
        Slice(s, IF i = 1 THEN 1 ELSE Nth(seps, i - 1) + 1,
                 IF i = n + 1 THEN Len(s) ELSE Nth(seps, i) - 1)]

Split(s, sep) ==
    SplitAt(s, {p \in 1..Len(s) : s[p] = sep}, Cardinality({p \in 1..Len(s) : s[p] = sep}))

\* the value of a non-empty run of decimal digits
RECURSIVE DigitsValue(_)
DigitsValue(s) ==
    IF s = <<>> THEN 0
    ELSE 10 * DigitsValue(SubSeq(s, 1, Len(s) - 1)) + DigitVal(s[Len(s)])

\* str(n) for n >= 0
RECURSIVE Dec(_)
Dec(n) == IF n < 10 THEN <<DigitChar(n)>> ELSE Dec(n \div 10) \o <<DigitChar(n % 10)>>

\* f"{n:02d}": the sign counts towards the width of two
Pad2(n) ==
    IF n < 0 THEN <<"-">> \o Dec(-n)
    ELSE IF n < 10 THEN <<"0">> \o Dec(n)
    ELSE Dec(n)

\* int(s): surrounding whitespace, an optional sign, then digits only.
\* [ok |-> FALSE] stands for ValueError.
Negative(t) == t # <<>> /\ t[1] = "-"

\* t without its sign
Unsigned(t) == IF Negative(t) THEN Slice(t, 2, Len(t)) ELSE t

IntOfBody(neg, body) ==
    IF body # <<>> /\ Chars(body) \subseteq Digits
    THEN [ok |-> TRUE, val |-> IF neg THEN -DigitsValue(body) ELSE DigitsValue(body)]
    ELSE [ok |-> FALSE, val |-> 0]

IntOf(s) == IntOfBody(Negative(Strip(s)), Unsigned(Strip(s)))

\* float(s), as far as the code uses it: the code only takes // 3600, % 3600,
\* // 60 and % 60 of the float and truncates, which for a float x gives what
\* the same arithmetic gives on floor(x).  FloatOf returns that floor.
\* Accepted: whitespace, an optional "-", digits with at most one "." and at
\* least one digit.  [ok |-> FALSE] stands for ValueError.
\* ip: the digits before the point; fp: the digits after it; rest_ok: nothing
\* but digits follows the point, or the digits end the string
FloatOfParts(neg, ip, fp, rest_ok) ==
    IF rest_ok /\ Len(ip) + Len(fp) > 0
    THEN [ok |-> TRUE,
          val |-> IF ~neg THEN DigitsValue(ip)
                  ELSE IF Chars(fp) \ {"0"} # {} THEN -DigitsValue(ip) - 1
                  ELSE -DigitsValue(ip)]
    ELSE [ok |-> FALSE, val |-> 0]

\* e1: the position after the leading digits of body
FloatOfBody(neg, body, e1) ==
    IF e1 <= Len(body) /\ body[e1] = "."
    THEN FloatOfParts(neg, Slice(body, 1, e1 - 1), Slice(body, e1 + 1, Len(body)),
                      Chars(Slice(body, e1 + 1, Len(body))) \subseteq Digits)
    ELSE FloatOfParts(neg, Slice(body, 1, e1 - 1), <<>>, e1 = Len(body) + 1)

FloatOfStripped(t) ==
    FloatOfBody(Negative(t), Unsigned(t), SkipClass(Unsigned(t), 1, Digits))

FloatOf(s) == FloatOfStripped(Strip(s))

Colon == <<":">>

\* f"{h:02d}:{m:02d}:{s:02d}"
Hms(h, m, s) == Pad2(h) \o Colon \o Pad2(m) \o Colon \o Pad2(s)

\* a plausible slip: the hours are written unpadded, f"{h}:{m:02d}:{s:02d}"
HmsFromPartsUnpadded(h, m, s) ==
    (IF h < 0 THEN <<"-">> \o Dec(-h) ELSE Dec(h)) \o Colon \o Pad2(m) \o Colon \o Pad2(s)

\* line 88: the three int() values of a three-part colon form, formatted
HmsFromParts(h, m, s) == Hms(h, m, s)

\* a plausible slip: the minutes are taken of the total, not of the remainder
SecondsToHmsNoRemainder(total_seconds) ==
    Hms(total_seconds \div 3600, total_seconds \div 60, total_seconds % 60)

\* lines 93-96.  Python's floor division and modulo by a positive divisor are
\* TLA+'s \div and %
SecondsToHms(total_seconds) ==
    Hms(total_seconds \div 3600, (total_seconds % 3600) \div 60, total_seconds % 60)

\* line 88, on the three int() results; a ValueError of any gives None
ThreeParts(p1, p2, p3) ==
    IF p1.ok /\ p2.ok /\ p3.ok THEN HmsFromParts(p1.val, p2.val, p3.val) ELSE None

\* line 90
TwoParts(p1, p2) == IF p1.ok /\ p2.ok THEN Hms(0, p1.val, p2.val) ELSE None

\* lines 92-96, on the float() result
FromSeconds(total) == IF total.ok THEN SecondsToHms(total.val) ELSE None

\* lines 85-96, parts being timestamp_str.split(':')
FromStripped(s, parts) ==
    IF ":" \in Chars(s) /\ Len(parts) = 3
    THEN ThreeParts(IntOf(parts[1]), IntOf(parts[2]), IntOf(parts[3]))
    ELSE IF ":" \in Chars(s) /\ Len(parts) = 2
    THEN TwoParts(IntOf(parts[1]), IntOf(parts[2]))
    \* a colon form of another length falls through to float(), which raises
    \* ValueError on the colon
    ELSE FromSeconds(FloatOf(s))

process_timestamp(timestamp_str) ==
    IF timestamp_str = None \/ timestamp_str = <<>> THEN None
    ELSE FromStripped(StripChars(timestamp_str, {"[", "]"}),
                      Split(StripChars(timestamp_str, {"[", "]"}), ":"))

\* sum(int(x) * 60 ** i for i, x in enumerate(reversed(parts)))
AddPart(last, rest) == [ok |-> last.ok /\ rest.ok, val |-> last.val + 60 * rest.val]

RECURSIVE SecondsOfParts(_)
SecondsOfParts(parts) ==
    IF parts = <<>> THEN [ok |-> TRUE, val |-> 0]
    ELSE AddPart(IntOf(parts[Len(parts)]), SecondsOfParts(SubSeq(parts, 1, Len(parts) - 1)))

ToSeconds(timestamp) == SecondsOfParts(Split(timestamp, ":"))

\* a plausible slip: a timestamp equal to the duration is rejected
InRangeStrict(ts_seconds, dur_seconds) == 0 <= ts_seconds /\ ts_seconds < dur_seconds

\* line 151
InRange(ts_seconds, dur_seconds) == 0 <= ts_seconds /\ ts_seconds <= dur_seconds

\* line 151, or the except branch when an int() raised
ValidateSeconds(ts_seconds, dur_seconds) ==
    IF ts_seconds.ok /\ dur_seconds.ok
    THEN InRange(ts_seconds.val, dur_seconds.val)
    ELSE FALSE

validate_timestamp(timestamp, video_duration) ==
    ValidateSeconds(ToSeconds(timestamp), ToSeconds(video_duration))

-----------------------------------------------------------------------------
(* Text: the regular expressions of clean_text_content and                  *)
(* process_section_lines, each matched the way Python's re matches it       *)
(* (leftmost, greedy or lazy as written, non-overlapping).                  *)

UpperCase == <<"A", "B", "C", "D", "E", "F", "G", "H", "I", "J", "K", "L", "M",
               "N", "O", "P", "Q", "R", "S", "T", "U", "V", "W", "X", "Y", "Z">>
LowerCase == <<"a", "b", "c", "d", "e", "f", "g", "h", "i", "j", "k", "l", "m",
               "n", "o", "p", "q", "r", "s", "t", "u", "v", "w", "x", "y", "z">>

LowerChar(c) ==
    IF \E k \in 1..26 : UpperCase[k] = c
    THEN LowerCase[CHOOSE k \in 1..26 : UpperCase[k] = c]
    ELSE c

\* str.lower()
Lower(s) == [k \in 1..Len(s) |-> LowerChar(s[k])]

\* the literal lit stands in s at position p
MatchAt(s, p, lit) ==
    /\ p >= 1
    /\ p + Len(lit) - 1 <= Len(s)
    /\ \A k \in 1..Len(lit) : s[p + k - 1] = lit[k]

\* lit in s
Contains(s, lit) == \E p \in 1..(Len(s) - Len(lit) + 1) : MatchAt(s, p, lit)

IsDigitAt(s, p) == p >= 1 /\ p <= Len(s) /\ s[p] \in Digits

\* \d{2}:\d{2}:\d{2} at p
HmsAt(s, p) ==
    /\ p + 7 <= Len(s)
    /\ \A k \in {0, 1, 3, 4, 6, 7} : IsDigitAt(s, p + k)
    /\ s[p + 2] = ":" /\ s[p + 5] = ":"

\* \[\d{2}:\d{2}:\d{2}\] at p
BracketedHmsAt(s, p) ==
    /\ p >= 1 /\ p + 9 <= Len(s)
    /\ s[p] = "[" /\ HmsAt(s, p + 1) /\ s[p + 9] = "]"

\* r'\*\*([^\*]+)\*\*' -> r'\1'
SkipUntil(s, p, c) ==
    Min({q \in p..Len(s) : s[q] = c} \cup {IF p > Len(s) THEN p ELSE Len(s) + 1})

\* q: the position of the first "*" after the opening pair
BoldEndAt(s, p, q) ==
    IF MatchAt(s, p, <<"*", "*">>) /\ q > p + 2 /\ MatchAt(s, q, <<"*", "*">>)
    THEN q + 2 ELSE 0

BoldEnd(s, p) == BoldEndAt(s, p, SkipUntil(s, p + 2, "*"))

BoldInner(s, p, e) == Slice(s, p + 2, e - 3)

\* r'\[\d{2}:\d{2}:\d{2}\](.*?)\[\d{2}:\d{2}:\d{2}\]' -> r'\1'
\* (lazy: up to the nearest following bracketed timestamp; "." stops at "\n")
BracketedHmsFrom(s, q) == {m \in q..(Len(s) - 9) : BracketedHmsAt(s, m)}

NearestOf(s, q, found) ==
    IF found = {} THEN 0
    ELSE IF \E j \in q..(Min(found) - 1) : s[j] = "\n" THEN 0
    ELSE Min(found)

NextBracketedHms(s, q) == NearestOf(s, q, BracketedHmsFrom(s, q))

AfterClosing(q) == IF q > 0 THEN q + 10 ELSE 0

WrappedEnd(s, p) ==
    IF BracketedHmsAt(s, p) THEN AfterClosing(NextBracketedHms(s, p + 10)) ELSE 0

WrappedInner(s, p, e) == Slice(s, p + 10, e - 11)

\* r'at \d{2}:\d{2}:\d{2}' and r'timestamp \d{2}:\d{2}:\d{2}'
AtEnd(s, p) ==
    IF MatchAt(s, p, <<"a", "t", " ">>) /\ HmsAt(s, p + 3) THEN p + 11 ELSE 0

TimestampWordEnd(s, p) ==
    IF MatchAt(s, p, <<"t", "i", "m", "e", "s", "t", "a", "m", "p", " ">>) /\ HmsAt(s, p + 10)
    THEN p + 18 ELSE 0

\* r'\[(\d+\.?\d*)\]' -> f'[{process_timestamp(m.group(1))}]'
\* the position after c at p, or p when another character stands there
OptionalAt(s, p, c) == IF p <= Len(s) /\ s[p] = c THEN p + 1 ELSE p

\* q1: the position after the digits; q3: after the optional point and digits
NumericEndAt(s, p, q1, q3) ==
    IF p <= Len(s) /\ s[p] = "[" /\ q1 > p + 1 /\ q3 <= Len(s) /\ s[q3] = "]"
    THEN q3 + 1 ELSE 0

NumericEndFrom(s, p, q1) ==
    NumericEndAt(s, p, q1, SkipClass(s, OptionalAt(s, q1, "."), Digits))

NumericEnd(s, p) == NumericEndFrom(s, p, SkipClass(s, p + 1, Digits))

\* str(x) inside an f-string, for x a str or None
FStr(x) == IF x = None THEN <<"N", "o", "n", "e">> ELSE x

NumericRepl(s, p, e) == <<"[">> \o FStr(process_timestamp(Slice(s, p + 1, e - 2))) \o <<"]">>

\* r'\[ALL-IN\]\s*\[ALL-IN\]' and r'\[ELIMINATION\]\s*\[ELIMINATION\]'
AllIn == <<"[", "A", "L", "L", "-", "I", "N", "]">>
Elimination == <<"[", "E", "L", "I", "M", "I", "N", "A", "T", "I", "O", "N", "]">>

DoubledEndAt(s, p, marker, q) ==
    IF MatchAt(s, p, marker) /\ MatchAt(s, q, marker) THEN q + Len(marker) ELSE 0

DoubledEnd(s, p, marker) ==
    DoubledEndAt(s, p, marker, SkipClass(s, p + Len(marker), Whitespace))

AllInEnd(s, p) == DoubledEnd(s, p, AllIn)
EliminationEnd(s, p) == DoubledEnd(s, p, Elimination)

\* r'\s+' -> ' '
SpacesEnd(s, p) == IF s[p] \in Whitespace THEN SkipClass(s, p, Whitespace) ELSE 0

\* r'Key Moments?:?\s*' and r'Summary:?\s*'
KeyMomentsEnd(s, p) ==
    IF MatchAt(s, p, <<"K", "e", "y", " ", "M", "o", "m", "e", "n", "t">>)
    THEN SkipClass(s, OptionalAt(s, OptionalAt(s, p + 10, "s"), ":"), Whitespace)
    ELSE 0

SummaryEnd(s, p) ==
    IF MatchAt(s, p, <<"S", "u", "m", "m", "a", "r", "y">>)
    THEN SkipClass(s, OptionalAt(s, p + 7, ":"), Whitespace)
    ELSE 0

\* r'^\d+\.\s*' -> '' (anchored at the start: at most one match)
DropLeadingNumberAt(s, q) ==
    IF q > 1 /\ q <= Len(s) /\ s[q] = "."
    THEN Slice(s, SkipClass(s, q + 1, Whitespace), Len(s))
    ELSE s

DropLeadingNumber(s) == DropLeadingNumberAt(s, SkipClass(s, 1, Digits))

\* r'\[[\d:\.]+\]\s*-?\s*' (line 177)
TokenEndAt(s, p, q) ==
    IF p <= Len(s) /\ s[p] = "[" /\ q > p + 1 /\ q <= Len(s) /\ s[q] = "]"
    THEN SkipClass(s, OptionalAt(s, SkipClass(s, q + 1, Whitespace), "-"), Whitespace)
    ELSE 0

TokenEnd(s, p) == TokenEndAt(s, p, SkipClass(s, p + 1, Digits \cup {":", "."}))

\* the position after the match of the named pattern at p, or 0 when it does
\* not match there
MatchEnd(pat, s, p) ==
    CASE pat = "bold"        -> BoldEnd(s, p)
      [] pat = "wrapped"     -> WrappedEnd(s, p)
      [] pat = "at"          -> AtEnd(s, p)
      [] pat = "timestamp"   -> TimestampWordEnd(s, p)
      [] pat = "numeric"     -> NumericEnd(s, p)
      [] pat = "allin"       -> AllInEnd(s, p)
      [] pat = "elimination" -> EliminationEnd(s, p)
      [] pat = "spaces"      -> SpacesEnd(s, p)
      [] pat = "keymoments"  -> KeyMomentsEnd(s, p)
      [] pat = "summary"     -> SummaryEnd(s, p)
      [] pat = "token"       -> TokenEnd(s, p)

\* the replacement for the match s[p..e-1] of the named pattern
Replacement(pat, s, p, e) ==
    CASE pat = "bold"        -> BoldInner(s, p, e)
      [] pat = "wrapped"     -> WrappedInner(s, p, e)
      [] pat = "numeric"     -> NumericRepl(s, p, e)
      [] pat = "allin"       -> AllIn
      [] pat = "elimination" -> Elimination
      [] pat = "spaces"      -> <<" ">>
      [] OTHER               -> <<>>

\* the leftmost position >= p where the named pattern matches, or 0
MinOrZero(found) == IF found = {} THEN 0 ELSE Min(found)

FirstMatch(pat, s, p) == MinOrZero({q \in p..Len(s) : MatchEnd(pat, s, q) > 0})

\* re.sub(pattern, repl, s) from position p on: leftmost matches, not
\* overlapping.  SubMatch replaces the match s[q..e-1] and goes on from e.
RECURSIVE SubFrom(_, _, _)
SubMatch(pat, s, p, q, e) ==
    Slice(s, p, q - 1) \o Replacement(pat, s, q, e) \o SubFrom(pat, s, e)

SubAt(pat, s, p, q) ==
    IF q = 0 THEN Slice(s, p, Len(s)) ELSE SubMatch(pat, s, p, q, MatchEnd(pat, s, q))

SubFrom(pat, s, p) == SubAt(pat, s, p, FirstMatch(pat, s, p))

Sub(pat, s) == SubFrom(pat, s, 1)

clean_text_content(text) ==
    LET t1  == Sub("bold", text)
        t2  == Sub("wrapped", t1)
        t3  == Sub("at", t2)
        t4  == Sub("timestamp", t3)
        t5  == Sub("numeric", t4)
        t6  == Sub("allin", t5)
        t7  == Sub("elimination", t6)
        t8  == Sub("spaces", t7)
        t9  == Sub("keymoments", t8)
        t10 == Sub("summary", t9)
        t11 == DropLeadingNumber(t10)
    IN  Strip(t11)

\* str(n) for any integer n
IntStr(n) == IF n < 0 THEN <<"-">> \o Dec(-n) ELSE Dec(n)

\* The fixed pieces of the link format_entry writes.  Each is one element of
\* the rendered string: no operation of the program looks inside them.
LinkHead == <<"<a href=\"https://www.youtube.com/watch?v=">>
LinkTime == <<"&t=">>
LinkAttrs == <<"\" target=\"_blank\" class=\"highlighted-timestamp\">[">>
LinkTail == <<"]</a> ">>

\* a timestamp that is None or '' counts as absent ("if not timestamp")
Falsy(x) == x = None \/ x = <<>>

\* lines 162-165: the link that precedes the cleaned text
Link(timestamp, video_id) ==
    LinkHead \o video_id \o LinkTime \o IntStr(ToSeconds(timestamp).val) \o LinkAttrs
        \o timestamp \o LinkTail

format_entry(text, timestamp, video_id) ==
    (IF Falsy(timestamp) THEN <<>> ELSE Link(timestamp, video_id))
        \o clean_text_content(text)

\* re.search(r'\[(\d{2}:\d{2}:\d{2})\]', entry): group 1 of the leftmost match
GroupAt(s, m) == IF m = 0 THEN None ELSE SubSeq(s, m + 1, m + 8)

SearchBracketedHms(s, p) == GroupAt(s, MinOrZero(BracketedHmsFrom(s, p)))

\* dict.get(key): the value, or None
MapGet(m, key) == IF key \in DOMAIN m THEN m[key] ELSE None

\* m[key] = value
MapPut(m, key, value) ==
    [k \in DOMAIN m \cup {key} |-> IF k = key THEN value ELSE m[k]]

EmptyMap == [k \in {} |-> None]

\* a plausible slip: the transcript is consulted only when the line carries no
\* inline timestamp; an inline timestamp that fails validation is dropped
ResolveTimestampMissingOnly(inline, text, timestamp_map, video_duration) ==
    IF Falsy(inline) THEN MapGet(timestamp_map, Lower(text))
    ELSE IF validate_timestamp(inline, video_duration) THEN inline
    ELSE None

\* lines 179-180
ResolveTimestamp(inline, text, timestamp_map, video_duration) ==
    IF Falsy(inline) \/ ~validate_timestamp(inline, video_duration)
    THEN MapGet(timestamp_map, Lower(text))
    ELSE inline

\* lines 179-182, text being the line without its bracketed tokens
FormatText(inline, text, timestamp_map, video_id, video_duration) ==
    format_entry(text, ResolveTimestamp(inline, text, timestamp_map, video_duration), video_id)

\* lines 173-182: one line of a section, formatted
FormatLine(entry, timestamp_map, video_id, video_duration) ==
    FormatText(SearchBracketedHms(entry, 1), Strip(Sub("token", entry)),
               timestamp_map, video_id, video_duration)

InSeq(x, seq) == \E k \in 1..Len(seq) : seq[k] = x

\* lines 183-184
AppendNew(processed_entries, formatted) ==
    IF formatted # <<>> /\ ~InSeq(formatted, processed_entries)
    THEN Append(processed_entries, formatted)
    ELSE processed_entries

RECURSIVE ProcessLinesFrom(_, _, _, _, _, _)
ProcessLinesFrom(section_lines, k, processed_entries, timestamp_map, video_id, video_duration) ==
    IF k > Len(section_lines) THEN processed_entries
    ELSE ProcessLinesFrom(section_lines, k + 1,
             AppendNew(processed_entries,
                       FormatLine(section_lines[k], timestamp_map, video_id, video_duration)),
             timestamp_map, video_id, video_duration)

process_section_lines(section_lines, timestamp_map, video_id, video_duration) ==
    ProcessLinesFrom(section_lines, 1, <<>>, timestamp_map, video_id, video_duration)

\* A transcript entry is [text |-> str or None, true_video_timestamp |-> str or None],
\* None standing for a key the JSON object does not have.
\* entry.get('text', '')
TextOf(entry) == IF entry.text = None THEN <<>> ELSE entry.text

\* a plausible slip: a text that is indexed already keeps its first timestamp
PutEntryFirstWins(timestamp_map, entry, clean_timestamp, text) ==
    IF ~Falsy(entry.true_video_timestamp) /\ ~Falsy(clean_timestamp) /\ text # <<>>
           /\ text \notin DOMAIN timestamp_map
    THEN MapPut(timestamp_map, text, clean_timestamp)
    ELSE timestamp_map

\* lines 105-110 for one entry, clean_timestamp and text computed
PutEntry(timestamp_map, entry, clean_timestamp, text) ==
    IF ~Falsy(entry.true_video_timestamp) /\ ~Falsy(clean_timestamp) /\ text # <<>>
    THEN MapPut(timestamp_map, text, clean_timestamp)
    ELSE timestamp_map

RECURSIVE TimestampMapFrom(_, _, _)
TimestampMapFrom(transcript, k, timestamp_map) ==
    IF k > Len(transcript) THEN timestamp_map
    ELSE TimestampMapFrom(transcript, k + 1,
             PutEntry(timestamp_map, transcript[k],
                      process_timestamp(transcript[k].true_video_timestamp),
                      Lower(Strip(TextOf(transcript[k])))))

create_timestamp_map(transcript) == TimestampMapFrom(transcript, 1, EmptyMap)

-----------------------------------------------------------------------------
(* merge_and_format_summaries *)

StandoutHeader == <<"s", "t", "a", "n", "d", "o", "u", "t", " ", "p", "l", "a", "y", "e", "r", "s", ":">>
StrategicHeader == <<"s", "t", "r", "a", "t", "e", "g", "i", "c", " ", "i", "n", "s", "i", "g", "h", "t", "s", ":">>

\* a plausible slip: the new entries are put before those the section holds
FlushPrepend(record, section, section_lines, timestamp_map, video_id, video_duration) ==
    IF section_lines = <<>> THEN record
    ELSE [record EXCEPT ![section] =
             process_section_lines(section_lines, timestamp_map, video_id, video_duration) \o @]

\* lines 221-226, 230-235, 242-247: the gathered lines, if any, are processed
\* and their entries appended to the section
Flush(record, section, section_lines, timestamp_map, video_id, video_duration) ==
    IF section_lines = <<>> THEN record
    ELSE [record EXCEPT ![section] =
             @ \o process_section_lines(section_lines, timestamp_map, video_id, video_duration)]

\* a plausible slip: the section is switched before the gathered lines are
\* flushed, so they land under the header that ends them
OnHeaderSwitchFirst(st, section, timestamp_map, video_id, video_duration) ==
    [current_section |-> section,
     section_lines   |-> <<>>,
     record          |-> Flush(st.record, section, st.section_lines,
                               timestamp_map, video_id, video_duration)]

\* lines 220-228 and 229-237: a header line ends the running section
OnHeader(st, section, timestamp_map, video_id, video_duration) ==
    [current_section |-> section,
     section_lines   |-> <<>>,
     record          |-> Flush(st.record, st.current_section, st.section_lines,
                               timestamp_map, video_id, video_duration)]

\* lines 215-247: the lines of one chunk, from line k on
RECURSIVE ScanLines(_, _, _, _, _, _)
ScanLines(lines, k, st, timestamp_map, video_id, video_duration) ==
    IF k > Len(lines)
    THEN Flush(st.record, st.current_section, st.section_lines,
               timestamp_map, video_id, video_duration)
    ELSE LET line == Strip(lines[k])
             next ==
                 IF line = <<>> THEN st
                 ELSE IF Contains(Lower(line), StandoutHeader)
                 THEN OnHeader(st, "standout_players", timestamp_map, video_id, video_duration)
                 ELSE IF Contains(Lower(line), StrategicHeader)
                 THEN OnHeader(st, "strategic_insights", timestamp_map, video_id, video_duration)
                 ELSE [st EXCEPT !.section_lines = Append(@, line)]
         IN  ScanLines(lines, k + 1, next, timestamp_map, video_id, video_duration)

\* lines 212-247: one chunk; a chunk is its "summary" text
MergeChunk(record, chunk, timestamp_map, video_id, video_duration) ==
    ScanLines(Split(chunk, "\n"), 1,
              [current_section |-> "key_moments", section_lines |-> <<>>, record |-> record],
              timestamp_map, video_id, video_duration)

\* line 211: the chunks of one document, from chunk k on
RECURSIVE MergeChunks(_, _, _, _, _, _)
MergeChunks(record, chunks, k, timestamp_map, video_id, video_duration) ==
    IF k > Len(chunks) THEN record
    ELSE MergeChunks(MergeChunk(record, chunks[k], timestamp_map, video_id, video_duration),
                     chunks, k + 1, timestamp_map, video_id, video_duration)

\* lines 204-209
NewRecord(video_id, video_details) ==
    [video_id           |-> video_id,
     key_moments        |-> <<>>,
     standout_players   |-> <<>>,
     strategic_insights |-> <<>>,
     video_details      |-> video_details]

\* video_id in merged
HasRecord(merged_data, video_id) ==
    \E k \in 1..Len(merged_data) : merged_data[k].video_id = video_id

IndexOfRecord(merged_data, video_id) ==
    CHOOSE k \in 1..Len(merged_data) : merged_data[k].video_id = video_id

\* lines 201-247: a document whose details were fetched is merged into the dict
MergeInto(merged_data, summary, video_details) ==
    LET video_id      == summary.video_id
        timestamp_map == create_timestamp_map(summary.transcript)
        with_record   == IF HasRecord(merged_data, video_id) THEN merged_data
                         ELSE Append(merged_data, NewRecord(video_id, video_details))
        k             == IndexOfRecord(with_record, video_id)
    IN  [with_record EXCEPT ![k] =
             MergeChunks(@, summary.summaries, 1, timestamp_map, video_id,
                         video_details.duration)]

\* get_video_details: the API answers with the video ("ok"), with no items
\* ("empty") or the call raises ("error"); the last two return None
Responses == {"ok", "empty", "error"}

\* the None get_video_details returns (a dict is a record, which TLC does not
\* compare with the sequence None)
NoDetails == [none |-> TRUE]

get_video_details(video_id, response) ==
    IF response = "ok" /\ video_id \in DOMAIN world THEN world[video_id] ELSE NoDetails

\* a plausible slip: a document that cannot be merged ends the loop (break)
\* instead of being skipped (continue)
AfterSkipBreak(i) == Len(summaries) + 1

\* lines 195 and 199: continue
AfterSkip(i) == i + 1

\* lines 192-247: one iteration of the loop over the documents
MergeDocument ==
    /\ pc = "merge"
    /\ idx <= Len(summaries)
    /\ LET summary  == summaries[idx]
           video_id == summary.video_id
       IN  IF Falsy(video_id)
           THEN /\ merged' = merged
                /\ fate' = Append(fate, "no_id")
                /\ idx' = AfterSkip(idx)
           ELSE \E response \in Responses :
                  LET video_details == get_video_details(video_id, response)
                  IN  IF video_details = NoDetails
                      THEN /\ merged' = merged
                           /\ fate' = Append(fate, "no_details")
                           /\ idx' = AfterSkip(idx)
                      ELSE /\ merged' = MergeInto(merged, summary, video_details)
                           /\ fate' = Append(fate, "merged")
                           /\ idx' = idx + 1
    /\ UNCHANGED <<world, files, summaries, videos, reportFile, remote, publishFailed,
                   outcome, pc>>
    /\ UNCHANGED tvars

-----------------------------------------------------------------------------
(* generate_html_report *)

\* lines 258-266
VideoData(record) ==
    [id                 |-> record.video_id,
     title              |-> record.video_details.title,
     duration           |-> record.video_details.duration,
     upload_date        |-> record.video_details.upload_date,
     key_moments        |-> record.key_moments,
     standout_players   |-> record.standout_players,
     strategic_insights |-> record.strategic_insights]

\* line 272: the sort key, merged_data[x['id']]['video_details']['timestamp']
SortKey(merged_data, x) ==
    merged_data[IndexOfRecord(merged_data, x.id)].video_details.timestamp

\* a plausible slip: an unstable descending sort (ascending, then reversed),
\* which puts a video before the earlier ones of the same upload time
InsertPositionBeforeTies(sorted, x, merged_data) ==
    LET smaller == {k \in 1..Len(sorted) :
                        SortKey(merged_data, sorted[k]) <= SortKey(merged_data, x)}
    IN  IF smaller = {} THEN Len(sorted) + 1
        ELSE CHOOSE k \in smaller : \A j \in smaller : k <= j

\* list.sort(key=..., reverse=True) is stable: x goes after every element whose
\* key is greater than or equal to its own
InsertPosition(sorted, x, merged_data) ==
    LET smaller == {k \in 1..Len(sorted) :
                        SortKey(merged_data, sorted[k]) < SortKey(merged_data, x)}
    IN  IF smaller = {} THEN Len(sorted) + 1
        ELSE CHOOSE k \in smaller : \A j \in smaller : k <= j

InsertAt(seq, k, x) == SubSeq(seq, 1, k - 1) \o <<x>> \o SubSeq(seq, k, Len(seq))

RECURSIVE SortFrom(_, _, _, _)
SortFrom(list, k, sorted, merged_data) ==
    IF k > Len(list) THEN sorted
    ELSE SortFrom(list, k + 1,
                  InsertAt(sorted, InsertPosition(sorted, list[k], merged_data), list[k]),
                  merged_data)

\* videos.sort(key=lambda x: ..., reverse=True)
SortByUploadDescending(list, merged_data) == SortFrom(list, 1, <<>>, merged_data)

\* lines 253-285, given the merge loop has run: the videos are listed in the
\* dict's order, sorted, rendered and written to latest_report.html.  The
\* rendered page is modelled by the list the template iterates over.
GenerateHtmlReport ==
    /\ pc = "merge"
    /\ idx > Len(summaries)
    /\ LET list == [k \in 1..Len(merged) |-> VideoData(merged[k])]
       IN  videos' = SortByUploadDescending(list, merged)
    /\ reportFile' = [html |-> videos']
    /\ pc' = "publish"
    /\ UNCHANGED <<world, files, summaries, idx, merged, fate, remote, publishFailed,
                   outcome>>
    /\ UNCHANGED tvars

\* lines 274-283 raise (the template is missing, the file cannot be written):
\* main logs "An unexpected error occurred" and re-raises (lines 329-331)
GenerateHtmlReportRaises ==
    /\ pc = "merge"
    /\ idx > Len(summaries)
    /\ outcome' = "raised"
    /\ pc' = "done"
    /\ UNCHANGED <<world, files, summaries, idx, merged, fate, videos, reportFile, remote,
                   publishFailed>>
    /\ UNCHANGED tvars

-----------------------------------------------------------------------------
(* update_github_html and main *)

\* no file at a path
NoFile == [missing |-> TRUE]

\* A file of SUMMARY_PATH is a document, or text json.load rejects.
Malformed == [malformed |-> TRUE]

IsDocument(file) == "malformed" \notin DOMAIN file

\* lines 304-317: every .json file is loaded, the malformed ones are skipped;
\* with no document left main returns
LoadSummaries ==
    /\ pc = "load"
    /\ summaries' = SelectSeq(files, IsDocument)
    /\ IF summaries' = <<>>
       THEN pc' = "done" /\ outcome' = "no_summaries"
       ELSE pc' = "merge" /\ outcome' = outcome
    /\ UNCHANGED <<world, files, idx, merged, fate, videos, reportFile, remote,
                   publishFailed>>
    /\ UNCHANGED tvars

\* lines 287-297: the update succeeds, or any exception of it is caught and
\* logged; either way the function returns None
update_github_html ==
    /\ pc = "publish"
    /\ \E ok \in BOOLEAN :
         /\ remote' = IF ok THEN reportFile ELSE remote
         /\ publishFailed' = ~ok
    /\ pc' = "finish"
    /\ UNCHANGED <<world, files, summaries, idx, merged, fate, videos, reportFile, outcome>>
    /\ UNCHANGED tvars

\* line 327: main logs "Report successfully updated on GitHub" and returns
MainReturns ==
    /\ pc = "finish"
    /\ outcome' = "success"
    /\ pc' = "done"
    /\ UNCHANGED <<world, files, summaries, idx, merged, fate, videos, reportFile, remote,
                   publishFailed>>
    /\ UNCHANGED tvars

Next ==
    \/ LoadSummaries
    \/ MergeDocument
    \/ GenerateHtmlReport
    \/ GenerateHtmlReportRaises
    \/ update_github_html
    \/ MainReturns

-----------------------------------------------------------------------------
(* The runs of main: what the platform holds and what SUMMARY_PATH holds *)

MaxDocs == 2
MaxReportDocs == 3

Abc == <<"a", "b", "c">>
Xyz == <<"x", "y", "z">>
Def == <<"d", "e", "f">>
VideoIds == {Abc, Xyz, Def}

UploadTimes == {100, 200}

\* the 'duration' get_video_details formats for each video
DurationOf(video_id) ==
    IF video_id = Abc THEN <<"0", "0", ":", "4", "5", ":", "0", "0">> ELSE <<"0", "2", ":", "0", "0", ":", "0", "0">>

DetailsOf(video_id, upload_time) ==
    [title       |-> <<"title of ">> \o video_id,
     duration    |-> DurationOf(video_id),
     upload_date |-> <<"uploaded at ">> \o Dec(upload_time),
     timestamp   |-> upload_time]

\* the platform of the merge runs: abc 100, xyz 300, def 200
World0 ==
    [v \in VideoIds |->
        DetailsOf(v, IF v = Abc THEN 100 ELSE IF v = Xyz THEN 300 ELSE 200)]

\* the platforms of the report runs: that one, and those where some videos
\* share an upload time
Worlds ==
    {World0} \cup {[v \in VideoIds |-> DetailsOf(v, t[v])] : t \in [VideoIds -> UploadTimes]}

BigBluff == <<"b", "i", "g", " ", "b", "l", "u", "f", "f">>
HeroCall == <<"h", "e", "r", "o", " ", "c", "a", "l", "l">>

Entry(text, true_video_timestamp) ==
    [text |-> text, true_video_timestamp |-> true_video_timestamp]

TranscriptA == <<Entry(BigBluff, <<"9", "5">>)>>

TranscriptB ==
    <<Entry(BigBluff, <<"9", "5">>),
      Entry(<<" ", "B", "i", "g", " ", "B", "l", "u", "f", "f", " ">>, <<"1", "2", "0", ".", "5">>),
      Entry(BigBluff, None),
      Entry(HeroCall, <<"x">>),
      Entry(<<"a", "l", "l", " ", "i", "n">>, <<"-", "5">>)>>

\* one line with no header: a key moment
KeyMomentLine == [transcript |-> TranscriptA, summaries |-> <<BigBluff>>]

\* one line under a "Standout Players:" header
StandoutLine ==
    [transcript |-> TranscriptA,
     summaries  |-> <<<<"S", "t", "a", "n", "d", "o", "u", "t", " ", "P", "l", "a", "y", "e", "r", "s", ":", "\n", "h", "e", "r", "o", " ", "c", "a", "l", "l">>>>]

\* two chunks: an inline timestamp within 45 minutes and one beyond, a numbered
\* line under "Strategic Insights:", and a second chunk
TwoChunks ==
    [transcript |-> TranscriptA,
     summaries  |-> <<<<"[", "0", "0", ":", "0", "0", ":", "3", "0", "]", " ", "b", "i", "g", " ", "b", "l", "u", "f", "f", "\n", "[", "0", "1", ":", "0", "0", ":", "0", "0", "]", " ", "B", "i", "g", " ", "B", "l", "u", "f", "f", "\n", "\n", "S", "t", "r", "a", "t", "e", "g", "i", "c", " ", "I", "n", "s", "i", "g", "h", "t", "s", ":", "\n", " ", "1", ".", " ", "b", "i", "g", " ", "b", "l", "u", "f", "f", " ">>,
                    BigBluff>>]

\* both headers, in upper, lower and bold case, a "Key Moments:" line, repeated
\* lines, and a second run of standout players
HeaderRuns ==
    [transcript |-> TranscriptB,
     summaries  |-> <<<<"*", "*", "S", "T", "A", "N", "D", "O", "U", "T", " ", "P", "L", "A", "Y", "E", "R", "S", ":", "*", "*", "\n", "b", "i", "g", " ", "b", "l", "u", "f", "f", "\n", "b", "i", "g", " ", "b", "l", "u", "f", "f", "\n", "a", "l", "l", " ", "i", "n", "\n", "s", "t", "r", "a", "t", "e", "g", "i", "c", " ", "i", "n", "s", "i", "g", "h", "t", "s", ":", " ", "n", "o", "n", "e", "\n", "K", "e", "y", " ", "M", "o", "m", "e", "n", "t", "s", ":", "\n", "h", "e", "r", "o", " ", "c", "a", "l", "l", "\n", "S", "t", "a", "n", "d", "o", "u", "t", " ", "p", "l", "a", "y", "e", "r", "s", ":", "\n", "b", "i", "g", " ", "b", "l", "u", "f", "f">>>>]

\* a document without transcript and without chunks
NoChunks ==
    [transcript |-> <<>>,
     summaries  |-> <<>>]

\* a line wrapped in two timestamps, and an "at HH:MM:SS" phrase
WrappedLine ==
    [transcript |-> TranscriptA,
     summaries  |-> <<<<"[", "0", "0", ":", "5", "0", ":", "0", "0", "]", " ", "h", "e", "r", "o", " ", "c", "a", "l", "l", " ", "[", "0", "0", ":", "0", "0", ":", "3", "0", "]", "\n", "a", "t", " ", "0", "0", ":", "0", "1", ":", "0", "0", " ", "b", "i", "g", " ", "b", "l", "u", "f", "f">>>>]

Document(video_id, content) ==
    [video_id |-> video_id, transcript |-> content.transcript, summaries |-> content.summaries]

\* the files of the merge runs: documents of "abc" (45 minutes) and "xyz" (two
\* hours), a document without video_id, and a file json.load rejects
MergeFiles ==
    {Document(Abc, c) : c \in {KeyMomentLine, StandoutLine, TwoChunks, HeaderRuns, WrappedLine}}
      \cup {Document(Xyz, c) : c \in {TwoChunks, NoChunks}}
      \cup {Document(None, KeyMomentLine), Malformed}

\* the documents of the report runs: one line each, three videos
ReportFiles ==
    {Document(v, [transcript |-> <<>>, summaries |-> <<HeroCall>>]) : v \in VideoIds}

SeqsUpTo(S, n) == UNION {[1..k -> S] : k \in 0..n}

HarnessIdle ==
    /\ tsIn = None /\ durIn = None /\ tsOut = None /\ tsOut2 = None
    /\ valid = FALSE /\ trIn = <<>> /\ mapOut = EmptyMap /\ tpc = "idle"

\* main starts: nothing loaded, nothing merged, no report yet
MainStarts ==
    /\ summaries = <<>>
    /\ idx = 1
    /\ merged = <<>>
    /\ fate = <<>>
    /\ videos = <<>>
    /\ reportFile = NoFile
    /\ remote = NoFile
    /\ publishFailed = FALSE
    /\ outcome = "running"
    /\ pc = "load"

\* the merge runs
Init ==
    /\ HarnessIdle
    /\ world = World0
    /\ files \in SeqsUpTo(MergeFiles, MaxDocs)
    /\ MainStarts

Spec == Init /\ [][Next]_vars

\* the report runs
InitReport ==
    /\ HarnessIdle
    /\ world \in Worlds
    /\ files \in SeqsUpTo(ReportFiles, MaxReportDocs)
    /\ MainStarts

SpecReport == InitReport /\ [][Next]_vars

PipelineIdle ==
    /\ world = World0 /\ files = <<>> /\ summaries = <<>> /\ idx = 1 /\ merged = <<>>
    /\ fate = <<>> /\ videos = <<>> /\ reportFile = NoFile /\ remote = NoFile
    /\ publishFailed = FALSE /\ outcome = "running" /\ pc = "idle"

-----------------------------------------------------------------------------
(* The timestamp normalizer, run on its own: one input, normalized, and the *)
(* result normalized again.                                                 *)

MaxBareSeconds == 7300
MaxHours == 2

\* bare whole seconds, "0" .. str(MaxBareSeconds)
BareInputs == {Dec(n) : n \in 0..MaxBareSeconds}

\* H:MM:SS and HH:MM:SS, with and without the brackets the summaries put around them
HourStrs == {Dec(h) : h \in 0..MaxHours} \cup {Pad2(h) : h \in 0..MaxHours}

CanonicalCores ==
    {h \o Colon \o Pad2(m) \o Colon \o Pad2(sec) : h \in HourStrs, m \in 0..59, sec \in 0..59}

CanonicalInputs == CanonicalCores \cup {<<"[">> \o c \o <<"]">> : c \in CanonicalCores}

\* components that are negative, out of range, unpadded, fractional or not numbers
OddFields ==
    { <<"-", "5">>, <<"6", "0">>, <<"9", "9">>, <<"x">>, <<>>, <<"5">>,
      <<"1", "0", "0">>, <<" ", "7">>, <<"1", ".", "5">>, <<"-", "0">> }

OddInputs ==
    {a \o Colon \o b \o Colon \o c : a \in OddFields, b \in OddFields, c \in OddFields}
      \cup {a \o Colon \o b : a \in OddFields, b \in OddFields}
      \cup OddFields
      \cup { <<"-", "5", ".", "5">>, <<"1", "2", "5", ".", "5">>,
             <<"1", "0", ".", "8", "8">>, <<"-", "3", "6", "0", "0">>,
             <<"1", ":", "2", ":", "3", ":", "4">>, <<"[", "9", "5", "]">>, <<"[">> }

NormInputs == BareInputs \cup CanonicalInputs \cup OddInputs

InitNorm ==
    /\ tsIn \in NormInputs
    /\ durIn = None
    /\ tsOut = None
    /\ tsOut2 = None
    /\ valid = FALSE
    /\ trIn = <<>>
    /\ mapOut = EmptyMap
    /\ tpc = "in"
    /\ PipelineIdle

Normalize ==
    /\ tpc = "in"
    /\ tsOut' = process_timestamp(tsIn)
    /\ tpc' = "once"
    /\ UNCHANGED <<tsIn, durIn, tsOut2, valid, trIn, mapOut>>
    /\ UNCHANGED pvars

Renormalize ==
    /\ tpc = "once"
    /\ tsOut # None
    /\ tsOut2' = process_timestamp(tsOut)
    /\ tpc' = "twice"
    /\ UNCHANGED <<tsIn, durIn, tsOut, valid, trIn, mapOut>>
    /\ UNCHANGED pvars

NextNorm == Normalize \/ Renormalize

SpecNorm == InitNorm /\ [][NextNorm]_vars

(* The validator, run on its own on a pair of canonical timestamps. *)

MaxValHours == 1
ValMinutes == {0, 30, 45, 59}
ValSeconds == {0, 1, 59}

ValTimes == {Hms(h, m, sec) : h \in 0..MaxValHours, m \in ValMinutes, sec \in ValSeconds}

InitValidate ==
    /\ tsIn \in ValTimes
    /\ durIn \in ValTimes
    /\ tsOut = None
    /\ tsOut2 = None
    /\ valid = FALSE
    /\ trIn = <<>>
    /\ mapOut = EmptyMap
    /\ tpc = "in"
    /\ PipelineIdle

Validate ==
    /\ tpc = "in"
    /\ valid' = validate_timestamp(tsIn, durIn)
    /\ tpc' = "validated"
    /\ UNCHANGED <<tsIn, durIn, tsOut, tsOut2, trIn, mapOut>>
    /\ UNCHANGED pvars

NextValidate == Validate

SpecValidate == InitValidate /\ [][NextValidate]_vars

(* The transcript index, built on its own from a transcript. *)

MaxEntries == 3

\* transcript entries: a text in two cases and paddings with timestamps in
\* seconds, absent and unparseable; another text with an H:MM:SS timestamp; a
\* text of spaces only, an absent text, and an empty timestamp
IndexEntries ==
    {Entry(text, true_video_timestamp) :
        text \in {BigBluff, <<" ", "B", "i", "g", " ", "B", "l", "u", "f", "f", " ">>},
        true_video_timestamp \in {<<"9", "5">>, <<"1", "2", "0", ".", "5">>, None, <<"x">>}}
      \cup {Entry(HeroCall, <<"1", ":", "2", "2", ":", "1", "8">>),
            Entry(<<" ">>, <<"9", "5">>),
            Entry(None, <<"9", "5">>),
            Entry(BigBluff, <<>>)}

InitIndex ==
    /\ tsIn = None /\ durIn = None /\ tsOut = None /\ tsOut2 = None /\ valid = FALSE
    /\ trIn \in SeqsUpTo(IndexEntries, MaxEntries)
    /\ mapOut = EmptyMap
    /\ tpc = "in"
    /\ PipelineIdle

BuildIndex ==
    /\ tpc = "in"
    /\ mapOut' = create_timestamp_map(trIn)
    /\ tpc' = "indexed"
    /\ UNCHANGED <<tsIn, durIn, tsOut, tsOut2, valid, trIn>>
    /\ UNCHANGED pvars

SpecIndex == InitIndex /\ [][BuildIndex]_vars

-----------------------------------------------------------------------------
(* Claims about the normalizer and the validator *)

AllDigits(s) == s # <<>> /\ Chars(s) \subseteq Digits

\* two decimal digits read as a number
TwoDigitValue(s) == 10 * DigitVal(s[1]) + DigitVal(s[2])

\* a number below 100 written with exactly two digits (more digits above)
TwoDigits(n) == IF n < 100 THEN <<DigitChar(n \div 10), DigitChar(n % 10)>> ELSE Dec(n)

\* a TimestampToken: HH:MM:SS, every component digits only and at least two of
\* them, minutes and seconds below 60 (so the total is >= 0)
IsToken(s) ==
    LET parts == Split(s, ":")
    IN  /\ Len(parts) = 3
        /\ \A k \in 1..3 : AllDigits(parts[k]) /\ Len(parts[k]) >= 2
        /\ Len(parts[2]) = 2 /\ TwoDigitValue(parts[2]) < 60
        /\ Len(parts[3]) = 2 /\ TwoDigitValue(parts[3]) < 60

\* C6: every timestamp process_timestamp returns as a success is an HH:MM:SS
\* token with total seconds >= 0 and minutes and seconds below 60; negative,
\* out-of-range and malformed inputs are reported as a failure (None).
C6_ReturnedTimestampIsToken ==
    (tpc \in {"once", "twice"} /\ tsOut # None) => IsToken(tsOut)

\* C8: a bare non-negative whole number of seconds N gives the zero-padded
\* HH:MM:SS with hours N div 3600, minutes (N mod 3600) div 60, seconds N mod 60.
C8_BareSecondsToHms ==
    (tpc \in {"once", "twice"} /\ AllDigits(tsIn)) =>
        LET n == DigitsValue(tsIn)
        IN  tsOut = TwoDigits(n \div 3600) \o Colon
                      \o TwoDigits((n % 3600) \div 60) \o Colon \o TwoDigits(n % 60)

\* "125" has been normalized to "00:02:05"
C8_Witness ==
    /\ tpc = "once"
    /\ tsIn = <<"1", "2", "5">>
    /\ tsOut = <<"0", "0", ":", "0", "2", ":", "0", "5">>

\* tsIn without one pair of surrounding brackets
Unbracketed(s) ==
    IF Len(s) >= 2 /\ s[1] = "[" /\ s[Len(s)] = "]" THEN Slice(s, 2, Len(s) - 1) ELSE s

\* H:MM:SS or HH:MM:SS with minutes and seconds below 60
IsCanonical(s) ==
    LET parts == Split(s, ":")
    IN  /\ Len(parts) = 3
        /\ AllDigits(parts[1]) /\ Len(parts[1]) \in {1, 2}
        /\ AllDigits(parts[2]) /\ Len(parts[2]) = 2 /\ TwoDigitValue(parts[2]) < 60
        /\ AllDigits(parts[3]) /\ Len(parts[3]) = 2 /\ TwoDigitValue(parts[3]) < 60

\* C9: a valid canonical H:MM:SS, bracketed or not, comes back with the same
\* components, the hours padded to two digits, and normalizing the result
\* again returns it unchanged.
C9_CanonicalPaddedAndIdempotent ==
    (tpc \in {"once", "twice"} /\ IsCanonical(Unbracketed(tsIn))) =>
        LET core == Unbracketed(tsIn)
        IN  /\ tsOut = (IF Len(core) = 7 THEN <<"0">> ELSE <<>>) \o core
            /\ tpc = "twice" => tsOut2 = tsOut

\* "1:22:18" has been normalized to "01:22:18", and that again to itself
C9_Witness ==
    /\ tpc = "twice"
    /\ tsIn = <<"1", ":", "2", "2", ":", "1", "8">>
    /\ tsOut = <<"0", "1", ":", "2", "2", ":", "1", "8">>
    /\ tsOut2 = tsOut

\* the total seconds of an eight-character HH:MM:SS
CanonSeconds(s) ==
    3600 * TwoDigitValue(SubSeq(s, 1, 2)) + 60 * TwoDigitValue(SubSeq(s, 4, 5))
        + TwoDigitValue(SubSeq(s, 7, 8))

\* C7: on canonical timestamps validate_timestamp(ts, duration) is true
\* exactly when 0 <= seconds(ts) <= seconds(duration).
C7_ValidateIffWithinDuration ==
    tpc = "validated" =>
        (valid <=> (0 <= CanonSeconds(tsIn) /\ CanonSeconds(tsIn) <= CanonSeconds(durIn)))

\* 01:00:00 has been validated against 00:45:00 and rejected
C7_Witness ==
    /\ tpc = "validated"
    /\ tsIn = <<"0", "1", ":", "0", "0", ":", "0", "0">>
    /\ durIn = <<"0", "0", ":", "4", "5", ":", "0", "0">>
    /\ valid = FALSE

-----------------------------------------------------------------------------
(* Claims about the merge, the report and the run of main *)

Sections == {"key_moments", "standout_players", "strategic_insights"}

Range(seq) == {seq[k] : k \in 1..Len(seq)}

NoRepeat(seq) == \A a, b \in 1..Len(seq) : a # b => seq[a] # seq[b]

\* C1: after any sequence of documents and chunks, no section of any video's
\* merged record holds the same formatted entry twice.
C1_SectionsHoldNoEntryTwice ==
    \A k \in 1..Len(merged) : \A sec \in Sections : NoRepeat(merged[k][sec])

\* C2: when update_github_html fails, the run ends in a failure outcome and
\* not in success, and the report file generate_html_report wrote is on disk.
C2_FailedPublishEndsInFailure ==
    (pc = "done" /\ publishFailed) => (outcome = "raised" /\ reportFile # NoFile)

\* the documents of the loop that were neither skipped for their video_id nor
\* for their details
MergedDocs == {i \in 1..Len(fate) : fate[i] = "merged"}

\* the dict the first n documents give when the dropped ones are left out
RECURSIVE MergeKept(_)
MergeKept(n) ==
    IF n = 0 THEN <<>>
    ELSE IF fate[n] = "merged"
    THEN MergeInto(MergeKept(n - 1), summaries[n], world[summaries[n].video_id])
    ELSE MergeKept(n - 1)

\* C3: a document without video_id, or whose details lookup fails, is dropped
\* without ending the loop: every document before the loop's position has
\* been decided, the loop ends only after the last document, a document
\* without id is always dropped, and the merged dict is exactly what the
\* documents that were not dropped give, in their order.
C3_DroppedDocumentsLeaveOthersMerged ==
    /\ Len(fate) = idx - 1
    /\ idx <= Len(summaries) + 1
    /\ \A i \in 1..Len(fate) : fate[i] = "no_id" <=> Falsy(summaries[i].video_id)
    /\ pc = "merge" => merged = MergeKept(Len(fate))

\* a dropped document was followed by one that was merged with its entry
C3_Witness ==
    /\ pc = "merge"
    /\ idx > Len(summaries)
    /\ Len(fate) = 2
    /\ fate[1] \in {"no_id", "no_details"}
    /\ fate[2] = "merged"
    /\ Len(merged) = 1
    /\ merged[1].key_moments # <<>>

IsHeader(line) ==
    Contains(Lower(line), StandoutHeader) \/ Contains(Lower(line), StrategicHeader)

RecordOf(video_id) == merged[IndexOfRecord(merged, video_id)]

AllEntries(record) ==
    Range(record.key_moments) \cup Range(record.standout_players)
        \cup Range(record.strategic_insights)

\* the stripped lines of a document that are entries: not empty, not a header
EntryLines(summary) ==
    {line \in UNION {{Strip(l) : l \in Range(Split(summary.summaries[c], "\n"))} :
                         c \in 1..Len(summary.summaries)} :
        line # <<>> /\ ~IsHeader(line)}

\* the entries of a transcript that index the key: a present timestamp that
\* normalizes, and the trimmed, lowercased text equal to the key
IndexHits(transcript, key) ==
    {k \in 1..Len(transcript) :
        /\ ~Falsy(transcript[k].true_video_timestamp)
        /\ ~Falsy(process_timestamp(transcript[k].true_video_timestamp))
        /\ key # <<>>
        /\ Lower(Strip(TextOf(transcript[k]))) = key}

\* what the Transcript Timestamp Index holds for a key: the normalized
\* timestamp of the last entry that indexes it, None without one
IndexValue(transcript, key) ==
    IF IndexHits(transcript, key) = {} THEN None
    ELSE process_timestamp(transcript[Max(IndexHits(transcript, key))].true_video_timestamp)

\* the line without its bracketed tokens
LineText(line) == Strip(Sub("token", line))

\* the entry of a line whose timestamp is the index's value for its text
IndexedEntry(summary, line) ==
    format_entry(LineText(line), IndexValue(summary.transcript, Lower(LineText(line))),
                 summary.video_id)

InlineUnusable(summary, line) ==
    \/ Falsy(SearchBracketedHms(line, 1))
    \/ ~validate_timestamp(SearchBracketedHms(line, 1), world[summary.video_id].duration)

\* C4: a line whose inline [HH:MM:SS] is missing or fails validate_timestamp
\* against the video's duration gets the timestamp the transcript index holds
\* for its lowercased text, and no link when the index has no such key: the
\* entry so formatted, unless empty, is in the video's record.
C4_UnusableInlineFallsBackToIndex ==
    pc = "merge" =>
        \A i \in MergedDocs : \A line \in EntryLines(summaries[i]) :
            (InlineUnusable(summaries[i], line) /\ IndexedEntry(summaries[i], line) # <<>>)
                => IndexedEntry(summaries[i], line) \in AllEntries(RecordOf(summaries[i].video_id))

\* transcript entry "big bluff" at "95" and the line "big bluff": the entry
\* links to 00:01:35
C4_Witness ==
    /\ pc = "merge"
    /\ summaries = <<Document(Abc, KeyMomentLine)>>
    /\ fate = <<"merged">>
    /\ merged[1].key_moments =
           <<LinkHead \o Abc \o LinkTime \o <<"9", "5">> \o LinkAttrs
                 \o <<"0", "0", ":", "0", "1", ":", "3", "5">> \o LinkTail \o BigBluff>>

\* the section of line k of a chunk: that of the nearest header before it,
\* key_moments without one
HeadersBefore(lines, k) == {j \in 1..(k - 1) : IsHeader(Strip(lines[j]))}

SectionOfLine(lines, k) ==
    IF HeadersBefore(lines, k) = {} THEN "key_moments"
    ELSE IF Contains(Lower(lines[Max(HeadersBefore(lines, k))]), StandoutHeader)
    THEN "standout_players"
    ELSE "strategic_insights"

\* the entries the lines of one chunk give to a section
ChunkEntries(summary, lines, sec) ==
    {FormatLine(Strip(lines[k]), create_timestamp_map(summary.transcript),
                summary.video_id, world[summary.video_id].duration) :
        k \in {j \in 1..Len(lines) :
                   /\ Strip(lines[j]) # <<>>
                   /\ ~IsHeader(Strip(lines[j]))
                   /\ SectionOfLine(lines, j) = sec}}

\* the entries the merged documents of a video give to a section
Placements(video_id, sec) ==
    UNION {UNION {ChunkEntries(summaries[i], Split(summaries[i].summaries[c], "\n"), sec) :
                      c \in 1..Len(summaries[i].summaries)} :
               i \in {j \in MergedDocs : summaries[j].video_id = video_id}}

\* C5: the documents of a video_id accumulate into one record, and the
\* entries of a section are those of the lines that follow that section's
\* header (key_moments: the lines before the first header of their chunk);
\* a key-moment document and a standout-player document of one video give one
\* record with one key moment, one standout player, no strategic insight.
C5_OneRecordPerVideoLinesUnderTheirHeader ==
    pc = "merge" =>
        /\ \A a, b \in 1..Len(merged) : a # b => merged[a].video_id # merged[b].video_id
        /\ {merged[k].video_id : k \in 1..Len(merged)}
               = {summaries[i].video_id : i \in MergedDocs}
        /\ \A k \in 1..Len(merged) : \A sec \in Sections :
               Range(merged[k][sec]) = Placements(merged[k].video_id, sec) \ {<<>>}
        /\ (/\ summaries = <<Document(Abc, KeyMomentLine), Document(Abc, StandoutLine)>>
            /\ fate = <<"merged", "merged">>)
               => /\ Len(merged) = 1
                  /\ Len(merged[1].key_moments) = 1
                  /\ Len(merged[1].standout_players) = 1
                  /\ Len(merged[1].strategic_insights) = 0

\* the two documents of "abc" have been merged into one record
C5_Witness ==
    /\ pc = "merge"
    /\ summaries = <<Document(Abc, KeyMomentLine), Document(Abc, StandoutLine)>>
    /\ fate = <<"merged", "merged">>
    /\ Len(merged) = 1
    /\ Len(merged[1].key_moments) = 1
    /\ Len(merged[1].standout_players) = 1
    /\ Len(merged[1].strategic_insights) = 0

\* the upload timestamp of a video, and its place in the merged dict
UploadOf(video_id) == world[video_id].timestamp

\* C10: the report lists every merged video once, by upload timestamp
\* descending, and videos of equal upload timestamp in the order in which the
\* merge first met them.
C10_ReportSortedByUploadDescendingStable ==
    reportFile # NoFile =>
        /\ reportFile.html = videos
        /\ Len(videos) = Len(merged)
        /\ {videos[k].id : k \in 1..Len(videos)} = {merged[k].video_id : k \in 1..Len(merged)}
        /\ \A a, b \in 1..Len(videos) : a < b =>
               \/ UploadOf(videos[a].id) > UploadOf(videos[b].id)
               \/ /\ UploadOf(videos[a].id) = UploadOf(videos[b].id)
                  /\ IndexOfRecord(merged, videos[a].id) < IndexOfRecord(merged, videos[b].id)

\* videos met in the order 100, 300, 200 are listed 300, 200, 100
C10_Witness ==
    /\ reportFile # NoFile
    /\ [k \in 1..Len(merged) |-> UploadOf(merged[k].video_id)] = <<100, 300, 200>>
    /\ [k \in 1..Len(videos) |-> UploadOf(videos[k].id)] = <<300, 200, 100>>

RECURSIVE Flatten(_)
Flatten(seqs) == IF seqs = <<>> THEN <<>> ELSE Head(seqs) \o Flatten(Tail(seqs))

\* the entry of line k of a chunk if the line belongs to the section and its
\* entry is not empty, as a sequence of one or no element
LineEntry(summary, lines, k, sec) ==
    IF /\ Strip(lines[k]) # <<>>
       /\ ~IsHeader(Strip(lines[k]))
       /\ SectionOfLine(lines, k) = sec
       /\ FormatLine(Strip(lines[k]), create_timestamp_map(summary.transcript),
                     summary.video_id, world[summary.video_id].duration) # <<>>
    THEN <<FormatLine(Strip(lines[k]), create_timestamp_map(summary.transcript),
                      summary.video_id, world[summary.video_id].duration)>>
    ELSE <<>>

ChunkLineEntries(summary, lines, sec) ==
    Flatten([k \in 1..Len(lines) |-> LineEntry(summary, lines, k, sec)])

\* the entries of a document's lines of a section in the order of the source:
\* chunk after chunk, line after line
SourceOrder(summary, sec) ==
    Flatten([c \in 1..Len(summary.summaries) |->
                 ChunkLineEntries(summary, Split(summary.summaries[c], "\n"), sec)])

IsPrefix(a, b) == Len(a) <= Len(b) /\ SubSeq(b, 1, Len(a)) = a

\* a[i..] can be read off b[j..] from left to right
RECURSIVE IsSubsequenceFrom(_, _, _, _)
IsSubsequenceFrom(a, i, b, j) ==
    IF i > Len(a) THEN TRUE
    ELSE IF j > Len(b) THEN FALSE
    ELSE IF a[i] = b[j] THEN IsSubsequenceFrom(a, i + 1, b, j + 1)
    ELSE IsSubsequenceFrom(a, i, b, j + 1)

\* what a step has added to a section of the k-th record
Added(k, sec) ==
    SubSeq(merged'[k][sec], (IF k <= Len(merged) THEN Len(merged[k][sec]) ELSE 0) + 1,
           Len(merged'[k][sec]))

\* one step keeps every record in its place and every section as a prefix of
\* what it becomes, and what the step adds to the sections of the document's
\* video follows the document's chunks and lines in their order
EntriesOnlyAppendedInSourceOrder ==
    /\ Len(merged') >= Len(merged)
    /\ \A k \in 1..Len(merged) :
           /\ merged'[k].video_id = merged[k].video_id
           /\ \A sec \in Sections : IsPrefix(merged[k][sec], merged'[k][sec])
    /\ \A k \in 1..Len(merged') : \A sec \in Sections :
           IF pc = "merge" /\ idx <= Len(summaries)
                  /\ merged'[k].video_id = summaries[idx].video_id
           THEN IsSubsequenceFrom(Added(k, sec), 1, SourceOrder(summaries[idx], sec), 1)
           ELSE Added(k, sec) = <<>>

\* C11: within every section the entries stand in the order in which their
\* lines were met (lines of a chunk, chunks of a document, documents of the
\* input), and merging never reorders or removes an entry of a section.
C11_SectionsKeepSourceOrder == [][EntriesOnlyAppendedInSourceOrder]_vars

BigBluffAt95 ==
    LinkHead \o Abc \o LinkTime \o <<"9", "5">> \o LinkAttrs
        \o <<"0", "0", ":", "0", "1", ":", "3", "5">> \o LinkTail \o BigBluff

\* a one-line document and a two-chunk document of "abc": the first document's
\* entry leads, the second document's three entries follow it
C11_Witness ==
    /\ pc = "merge"
    /\ summaries = <<Document(Abc, KeyMomentLine), Document(Abc, TwoChunks)>>
    /\ fate = <<"merged", "merged">>
    /\ Len(merged[1].key_moments) = 4
    /\ merged[1].key_moments[1] = BigBluffAt95
    /\ merged[1].key_moments[2] # merged[1].key_moments[3]
    /\ merged[1].key_moments[4] = BigBluffAt95

\* the documents for which get_video_details was called with the video_id:
\* line 197 runs for every document that passed the test of line 194
Lookups(video_id) ==
    {i \in 1..Len(fate) : fate[i] # "no_id" /\ summaries[i].video_id = video_id}

\* C13: during one merge run get_video_details is called at most once for
\* each video_id, also when several documents share it.
C13_OneLookupPerVideoId ==
    \A video_id \in VideoIds : Cardinality(Lookups(video_id)) <= 1

\* the texts a transcript can index: trimmed, lowercased, not empty
IndexKeys(transcript) ==
    {Lower(Strip(TextOf(transcript[k]))) : k \in 1..Len(transcript)} \ {<<>>}

\* C12: create_timestamp_map is last-write-wins: the index maps each trimmed,
\* lowercased, non-empty text to the normalized timestamp of the last entry
\* with that text and a present timestamp that normalizes; an entry whose
\* timestamp is absent or does not normalize neither adds nor overwrites a key.
C12_IndexIsLastWriteWins ==
    tpc = "indexed" =>
        /\ DOMAIN mapOut = {key \in IndexKeys(trIn) : IndexHits(trIn, key) # {}}
        /\ \A key \in DOMAIN mapOut : mapOut[key] = IndexValue(trIn, key)

\* "big bluff" at 95, then " Big Bluff " at 120.5, then "big bluff" without
\* timestamp: the index holds 00:02:00 for "big bluff"
C12_Witness ==
    /\ tpc = "indexed"
    /\ trIn = <<Entry(BigBluff, <<"9", "5">>),
                Entry(<<" ", "B", "i", "g", " ", "B", "l", "u", "f", "f", " ">>,
                      <<"1", "2", "0", ".", "5">>),
                Entry(BigBluff, None)>>
    /\ DOMAIN mapOut = {BigBluff}
    /\ mapOut[BigBluff] = <<"0", "0", ":", "0", "2", ":", "0", "0">>

=============================================================================
